---- MODULE Spec2Model ----
(***************************************************************************)
(* A model of the starter scripts of package-installer-cli: the five AI    *)
(* client scripts, the ORM scripts, the web-framework templates and the    *)
(* pygame template.  Every script is a straight-line program (the pygame   *)
(* template has one loop); one action models one statement of a script,    *)
(* with the outcome of every call into a third-party library (return or    *)
(* raise) decided by the environment inputs drawn in Init.                 *)
(***************************************************************************)
EXTENDS Integers, Sequences, FiniteSets, TLC

VARIABLES
    script,      \* which script of the catalog this process runs
    pc,          \* the statement the process is at; "done" / "fault" when it has ended
    trace,       \* history: the externally visible steps taken, in order
    out,         \* the lines the script's print statements have written, in order
    fault,       \* the uncaught exception that ended the process, or Null
    \* ---- AI client scripts
    procEnv,     \* the variable the script reads (its API key, DATABASE_URL) in the process environment, Null when unset
    dotenv,      \* that variable in the .env file, Null when absent
    environ,     \* that variable as os.getenv sees it
    argv,        \* sys.argv
    endpoint,    \* "up" or "unreachable"
    body,        \* what the provider answers to an authenticated request
    API_KEY,     \* the module-level API_KEY
    prompt,      \* the module-level prompt, a sequence of characters
    request,     \* the request the script has built (url, credential, payload)
    wire,        \* the requests that went out to the network, in order
    res,         \* the response held by the script, or Null
    \* ---- ORM scripts
    dbUp,        \* whether the database server accepts connections during this run
    tables,      \* the tables that exist in the database (persist across runs)
    rows,        \* the rows of the script's table (persist across runs)
    runs,        \* how many runs of the script have been started
    ended,       \* history: how each earlier run ended ("done" or its fault), in order
    models,      \* the model classes declared so far in this run
    connected,   \* whether this run holds an open connection
    inserted,    \* the rows this run has inserted
    \* ---- web-framework templates
    isMain,      \* whether the file runs as __main__ (FALSE: it is imported)
    apps,        \* the application objects the script has instantiated
    routes,      \* the routes registered so far, in order
    serving,     \* whether the development server has been started
    served,      \* the requests the running server has answered, in order
    ip,          \* the index of the template's next statement
    \* ---- pygame template
    running,     \* the loop flag
    player_pos,  \* [x, y]
    keys,        \* the keys held at the last pygame.key.get_pressed()
    quitEvent,   \* whether this iteration's pygame.event.get() held a QUIT event
    frames,      \* iterations started
    flips,       \* pygame.display.flip() calls
    dt,          \* milliseconds returned by the last clock.tick(FPS)
    prev_pos     \* history: player_pos when the current iteration started

common == <<script, pc, trace, out, fault>>
aiVars == <<procEnv, dotenv, environ, argv, endpoint, body, API_KEY, prompt, request, wire, res>>
ormVars == <<dbUp, tables, rows, runs, ended, models, connected, inserted>>
webVars == <<isMain, apps, routes, serving, served, ip>>
gameVars == <<running, player_pos, keys, quitEvent, frames, flips, dt, prev_pos>>
vars == <<common, aiVars, ormVars, webVars, gameVars>>
\* What a step of one family of scripts leaves alone.
notAI == <<ormVars, webVars, gameVars>>
notORM == <<dotenv, argv, endpoint, body, API_KEY, prompt, request, wire, res, webVars, gameVars>>
notWeb == <<aiVars, ormVars, gameVars>>
notGame == <<aiVars, ormVars, webVars>>

\* Python's None, and an idle value for the variables of the other script families.
Null == "<null>"

(***************************************************************************)
(* Bounds (MaxRuns, MaxRequests, MaxFrames and MaxHeld are further down)   *)
(***************************************************************************)
MaxArgs == 2

(***************************************************************************)
(* Python helpers                                                          *)
(***************************************************************************)
\* str(x) inside an f-string: None formats as the four letters "None".
Str(x) == IF x = Null THEN "None" ELSE x

\* sep.join(words), strings being sequences of characters.
RECURSIVE Join(_, _)
Join(sep, words) ==
    IF words = <<>> THEN <<>>
    ELSE IF Len(words) = 1 THEN words[1]
    ELSE words[1] \o sep \o Join(sep, Tail(words))

\* x or y, on strings: the empty string is falsy.
Or(x, y) == IF x # <<>> THEN x ELSE y

\* "Explain Artificial Intelligence in one line."
DefaultPrompt ==
    <<"E","x","p","l","a","i","n"," ","A","r","t","i","f","i","c","i","a","l"," ",
      "I","n","t","e","l","l","i","g","e","n","c","e"," ","i","n"," ","o","n","e"," ",
      "l","i","n","e",".">>

\* A faulty variant of PromptOf: the script's own name is joined in with the arguments.
PromptOfWholeArgv(av) == Or(Join(<<" ">>, av), DefaultPrompt)

\* prompt = " ".join(sys.argv[1:]) or "Explain Artificial Intelligence in one line."
PromptOf(av) == Or(Join(<<" ">>, Tail(av)), DefaultPrompt)

(***************************************************************************)
(* The AI client scripts                                                   *)
(***************************************************************************)
AIScripts == {"claude", "gemini", "grok", "open-router", "openai"}
RequestsScripts == AIScripts \ {"openai"}

KeyVar(s) ==
    CASE s = "claude" -> "ANTHROPIC_API_KEY"
      [] s = "gemini" -> "GEMINI_API_KEY"
      [] s = "grok" -> "XAI_API_KEY"
      [] s = "open-router" -> "OPENROUTER_API_KEY"
      [] s = "openai" -> "OPENAI_API_KEY"

Url(s) ==
    CASE s = "claude" -> "https://api.anthropic.com/v1/messages"
      [] s = "gemini" -> "https://generativelanguage.googleapis.com/v1beta/models/gemini-pro:generateContent"
      [] s = "grok" -> "https://api.x.ai/v1/chat/completions"
      [] s = "open-router" -> "https://openrouter.ai/api/v1/chat/completions"
      [] s = "openai" -> "openai:chat.completions"

ModelName(s) ==
    CASE s = "claude" -> "claude-3-opus-20240229"
      [] s = "gemini" -> "gemini-pro"
      [] s = "grok" -> "grok-beta"
      [] s = "open-router" -> "mistralai/mixtral-8x7b"
      [] s = "openai" -> "gpt-4o-mini"

Label(s) ==
    CASE s = "claude" -> "Claude:"
      [] s = "gemini" -> "Gemini:"
      [] s = "grok" -> "Grok:"
      [] s = "open-router" -> "OpenRouter:"
      [] s = "openai" -> "OpenAI:"

\* How the key travels: claude puts API_KEY itself in the x-api-key header, grok
\* and open-router format it into "Bearer {API_KEY}", gemini formats it into the
\* URL's query string, openai hands it to the client constructor.
Credential(s, key) ==
    CASE s = "claude" -> [via |-> "x-api-key", value |-> key]
      [] s = "gemini" -> [via |-> "url", value |-> Str(key)]
      [] s = "grok" -> [via |-> "Bearer", value |-> Str(key)]
      [] s = "open-router" -> [via |-> "Bearer", value |-> Str(key)]
      [] s = "openai" -> [via |-> "client", value |-> key]

\* The value of request before the script has built one.
NoRequest ==
    [url |-> Null, cred |-> [via |-> Null, value |-> Null], model |-> Null, prompt |-> <<>>]

BuildRequest(s, key, p) ==
    [url |-> Url(s), cred |-> Credential(s, key), model |-> ModelName(s), prompt |-> p]

Words == {<<>>, <<"a">>, <<"b">>}
Argv0 == {<<"m">>, <<".", "/", "m">>}
RECURSIVE SeqsUpTo(_, _)
SeqsUpTo(S, n) ==
    IF n = 0 THEN {<<>>}
    ELSE LET shorter == SeqsUpTo(S, n - 1)
         IN  shorter \cup {Append(q, w) : q \in shorter, w \in S}
Argvs == {<<a0>> \o rest : a0 \in Argv0, rest \in SeqsUpTo(Words, MaxArgs)}

KeyValues == {Null, "bad", "good"}
Bodies == {"notjson", "nofield", "text"}

\* The provider's answer to a request that reached it: an error status with an
\* error document (JSON without the field the script reads) unless the
\* credential is the valid key.
Respond(req) ==
    IF req.cred.value # "good" THEN "unauthorized" ELSE body

Raise(e) ==
    /\ pc' = "fault"
    /\ fault' = e
    /\ trace' = Append(trace, "fault")

\* load_dotenv(): a variable of .env is set unless the environment already has it.
LoadDotenv ==
    /\ script \in AIScripts /\ pc = "load_dotenv"
    /\ environ' = IF environ # Null THEN environ ELSE dotenv
    /\ pc' = "getenv"
    /\ trace' = Append(trace, "load_dotenv")
    /\ UNCHANGED <<script, out, fault, procEnv, dotenv, argv, endpoint, body,
                   API_KEY, prompt, request, wire, res>>
    /\ UNCHANGED notAI

\* API_KEY = os.getenv(...)
GetKey ==
    /\ script \in AIScripts /\ pc = "getenv"
    /\ API_KEY' = environ
    /\ pc' = "prompt"
    /\ trace' = Append(trace, "getenv")
    /\ UNCHANGED <<script, out, fault, procEnv, dotenv, environ, argv, endpoint, body,
                   prompt, request, wire, res>>
    /\ UNCHANGED notAI

\* prompt = " ".join(sys.argv[1:]) or "Explain ..."
SetPrompt ==
    /\ script \in AIScripts /\ pc = "prompt"
    /\ prompt' = PromptOf(argv)
    /\ pc' = "build"
    /\ trace' = Append(trace, "prompt")
    /\ UNCHANGED <<script, out, fault, procEnv, dotenv, environ, argv, endpoint, body,
                   API_KEY, request, wire, res>>
    /\ UNCHANGED notAI

\* A faulty variant of Build: the script stops when API_KEY is None.
BuildChecked ==
    /\ script \in RequestsScripts /\ pc = "build"
    /\ IF API_KEY = Null
       THEN /\ Raise("ValueError")
            /\ UNCHANGED request
       ELSE /\ request' = BuildRequest(script, API_KEY, prompt)
            /\ pc' = "post"
            /\ trace' = Append(trace, "build")
            /\ UNCHANGED fault
    /\ UNCHANGED <<script, out, procEnv, dotenv, environ, argv, endpoint, body,
                   API_KEY, prompt, wire, res>>
    /\ UNCHANGED notAI

\* url / headers / payload of the requests scripts.
Build ==
    /\ script \in RequestsScripts /\ pc = "build"
    /\ request' = BuildRequest(script, API_KEY, prompt)
    /\ pc' = "post"
    /\ trace' = Append(trace, "build")
    /\ UNCHANGED <<script, out, fault, procEnv, dotenv, environ, argv, endpoint, body,
                   API_KEY, prompt, wire, res>>
    /\ UNCHANGED notAI

\* client = OpenAI(api_key=API_KEY): the constructor falls back to the
\* OPENAI_API_KEY variable and raises OpenAIError when it has no key at all.
MakeClient ==
    /\ script = "openai" /\ pc = "build"
    /\ IF API_KEY = Null /\ environ = Null
       THEN /\ Raise("OpenAIError")
            /\ UNCHANGED request
       ELSE /\ request' = BuildRequest(script, API_KEY, prompt)
            /\ pc' = "post"
            /\ trace' = Append(trace, "build")
            /\ UNCHANGED fault
    /\ UNCHANGED <<script, out, procEnv, dotenv, environ, argv, endpoint, body,
                   API_KEY, prompt, wire, res>>
    /\ UNCHANGED notAI

\* What requests.post / client.chat.completions.create raises, or Null when it
\* returns.  requests raises only when no response arrives; the openai client
\* also raises on an error status and on a body it cannot read.
PostFault(s, answer) ==
    IF endpoint = "unreachable"
    THEN (IF s = "openai" THEN "APIConnectionError" ELSE "ConnectionError")
    ELSE IF s = "openai" /\ answer = "unauthorized" THEN "AuthenticationError"
    ELSE IF s = "openai" /\ answer = "notjson" THEN "APIResponseValidationError"
    ELSE Null

\* The call that sends the request, written out for the number of times the
\* request goes out on the network.
SendRequest(copies) ==
    /\ script \in AIScripts /\ pc = "post"
    /\ wire' = wire \o [i \in 1..copies |-> request]
    /\ LET answer == Respond(request)
           e == PostFault(script, answer)
       IN  IF e # Null
           THEN /\ pc' = "fault"
                /\ fault' = e
                /\ trace' = trace \o [i \in 1..copies |-> "request"] \o <<"fault">>
                /\ UNCHANGED res
           ELSE /\ res' = answer
                /\ pc' = IF script = "openai" THEN "print" ELSE "json"
                /\ trace' = trace \o [i \in 1..copies |-> "request"] \o <<"response">>
                /\ UNCHANGED fault
    /\ UNCHANGED <<script, out, procEnv, dotenv, environ, argv, endpoint, body,
                   API_KEY, prompt, request>>
    /\ UNCHANGED notAI

\* A faulty variant of Post: the request is sent twice.
PostTwice == SendRequest(2)

\* requests.post(...) / client.chat.completions.create(...): the request goes out once.
Post == SendRequest(1)

\* .json() of the requests scripts: a body that is not JSON raises.
ParseJson ==
    /\ script \in RequestsScripts /\ pc = "json"
    /\ IF res = "notjson"
       THEN Raise("JSONDecodeError")
       ELSE /\ pc' = "print"
            /\ trace' = Append(trace, "json")
            /\ UNCHANGED fault
    /\ UNCHANGED <<script, out, procEnv, dotenv, environ, argv, endpoint, body,
                   API_KEY, prompt, request, wire, res>>
    /\ UNCHANGED notAI

\* What the subscripts in the print statement raise on a document that lacks
\* the field they read (an error document included), or Null.
SubscriptFault(s, doc) ==
    IF doc = "text" THEN Null
    ELSE IF s = "openai" THEN "TypeError"
    ELSE "KeyError"

\* A faulty variant of PrintLine: the label is printed before the subscripts are evaluated.
PrintLineEarly ==
    /\ script \in AIScripts /\ pc = "print"
    /\ out' = Append(out, <<Label(script), res>>)
    /\ IF SubscriptFault(script, res) # Null
       THEN Raise(SubscriptFault(script, res))
       ELSE /\ pc' = "done"
            /\ trace' = Append(trace, "print")
            /\ UNCHANGED fault
    /\ UNCHANGED <<script, procEnv, dotenv, environ, argv, endpoint, body,
                   API_KEY, prompt, request, wire, res>>
    /\ UNCHANGED notAI

\* print(label, res[...][0][...]): the subscripts are evaluated before print is
\* called, so a document without the field raises and nothing is printed.
PrintLine ==
    /\ script \in AIScripts /\ pc = "print"
    /\ IF SubscriptFault(script, res) # Null
       THEN /\ Raise(SubscriptFault(script, res))
            /\ UNCHANGED out
       ELSE /\ out' = Append(out, <<Label(script), res>>)
            /\ pc' = "done"
            /\ trace' = Append(trace, "print")
            /\ UNCHANGED fault
    /\ UNCHANGED <<script, procEnv, dotenv, environ, argv, endpoint, body,
                   API_KEY, prompt, request, wire, res>>
    /\ UNCHANGED notAI

NextAI ==
    \/ LoadDotenv
    \/ GetKey
    \/ SetPrompt
    \/ Build
    \/ MakeClient
    \/ Post
    \/ ParseJson
    \/ PrintLine
(***************************************************************************)
(* The ORM scripts                                                         *)
(***************************************************************************)
PeeweeScripts == {"mysql_peewee", "postgres_peewee"}
SQLAlchemyScripts == {"mysql_sqlalchemy", "postgres_sqlalchemy"}
InsertScripts == PeeweeScripts \cup SQLAlchemyScripts
SqliteScripts == {"sqlite_peewee", "sqlite_django"}
ORMScripts == InsertScripts \cup SqliteScripts

\* The class statements of a script that declare a model, in order.
ModelClasses(s) ==
    CASE s \in PeeweeScripts -> <<"BaseModel", IF s = "mysql_peewee" THEN "User" ELSE "Product">>
      [] s = "mysql_sqlalchemy" -> <<"User">>
      [] s = "postgres_sqlalchemy" -> <<"Product">>
      [] s = "sqlite_peewee" -> <<"User">>
      [] s = "sqlite_django" -> <<>>

\* The table of the script's concrete model.
TableName(s) ==
    CASE s = "mysql_peewee" -> "user"
      [] s = "mysql_sqlalchemy" -> "users"
      [] s = "postgres_peewee" -> "product"
      [] s = "postgres_sqlalchemy" -> "products"
      [] s = "sqlite_peewee" -> "users"

\* A faulty variant of UniqueColumns: the email column is not declared unique.
NoUniqueColumns(s) == {}

\* The columns declared unique=True.
UniqueColumns(s) ==
    IF s \in {"mysql_peewee", "mysql_sqlalchemy", "sqlite_peewee"} THEN {"email"} ELSE {}

\* The sample row the script inserts.
SampleRow(s) ==
    IF s \in {"mysql_peewee", "mysql_sqlalchemy"}
    THEN [name |-> "Sharique", email |-> "sharique@example.com"]
    ELSE [name |-> "Laptop", price |-> 50000]

\* The line a Peewee script prints at its end.
SuccessLine(s) ==
    IF s = "mysql_peewee"
    THEN "MySQL connected and user inserted successfully."
    ELSE "PostgreSQL connected and product inserted successfully."

\* A row violates a unique constraint when a stored row has its value in that column.
Conflicts(s, row, stored) ==
    \E i \in 1..Len(stored) : \E c \in UniqueColumns(s) : stored[i][c] = row[c]

MaxRuns == 3

ResetRun ==
    /\ pc' = "handle"
    /\ trace' = <<>> /\ out' = <<>> /\ fault' = Null
    /\ models' = <<>> /\ connected' = FALSE /\ inserted' = 0

\* db = MySQLDatabase(...) / PostgresqlDatabase(...) / SqliteDatabase(...), or
\* engine = create_engine(...): a handle is made, no connection is opened.
MakeHandle ==
    /\ script \in ORMScripts \ {"sqlite_django"} /\ pc = "handle"
    /\ pc' = "class"
    /\ trace' = Append(trace, "handle")
    /\ UNCHANGED <<script, out, fault, ormVars>>
    /\ UNCHANGED <<procEnv, environ, notORM>>

\* A class statement declaring a model; after the last one the script goes on to
\* db.connect() (Peewee), Base.metadata.create_all() (SQLAlchemy) or its end.
DeclareModel ==
    /\ script \in ORMScripts \ {"sqlite_django"} /\ pc = "class"
    /\ Len(models) < Len(ModelClasses(script))
    /\ models' = Append(models, ModelClasses(script)[Len(models) + 1])
    /\ trace' = Append(trace, "class")
    /\ pc' = IF Len(models') < Len(ModelClasses(script)) THEN "class"
             ELSE IF script \in PeeweeScripts THEN "connect"
             ELSE IF script \in SQLAlchemyScripts THEN "create_tables"
             ELSE "done"
    /\ UNCHANGED <<script, out, fault, dbUp, tables, rows, runs, ended, connected, inserted>>
    /\ UNCHANGED <<procEnv, environ, notORM>>

\* db.connect()
Connect ==
    /\ script \in PeeweeScripts /\ pc = "connect"
    /\ IF dbUp
       THEN /\ connected' = TRUE
            /\ pc' = "create_tables"
            /\ trace' = Append(trace, "connect")
            /\ UNCHANGED fault
       ELSE /\ pc' = "fault"
            /\ fault' = "OperationalError"
            /\ trace' = trace \o <<"connect", "fault">>
            /\ UNCHANGED connected
    /\ UNCHANGED <<script, out, dbUp, tables, rows, runs, ended, models, inserted>>
    /\ UNCHANGED <<procEnv, environ, notORM>>

\* db.create_tables([...]) / Base.metadata.create_all(bind=engine): CREATE TABLE
\* for the tables that do not exist yet.  The SQLAlchemy engine opens its first
\* connection here.
CreateTables ==
    /\ script \in InsertScripts /\ pc = "create_tables"
    /\ IF connected \/ dbUp
       THEN /\ connected' = TRUE
            /\ tables' = tables \cup {TableName(script)}
            /\ pc' = "insert"
            /\ trace' = (IF connected THEN trace ELSE Append(trace, "connect"))
                        \o <<"create_tables">>
            /\ UNCHANGED fault
       ELSE /\ pc' = "fault"
            /\ fault' = "OperationalError"
            /\ trace' = trace \o <<"connect", "fault">>
            /\ UNCHANGED <<connected, tables>>
    /\ UNCHANGED <<script, out, dbUp, rows, runs, ended, models, inserted>>
    /\ UNCHANGED <<procEnv, environ, notORM>>

\* A faulty variant of Insert: the sample row is inserted twice.
InsertTwice ==
    /\ script \in InsertScripts /\ pc = "insert"
    /\ IF Conflicts(script, SampleRow(script), rows)
       THEN /\ pc' = "fault"
            /\ fault' = "IntegrityError"
            /\ trace' = trace \o <<"insert", "fault">>
            /\ UNCHANGED <<rows, inserted>>
       ELSE /\ rows' = rows \o <<SampleRow(script), SampleRow(script)>>
            /\ inserted' = inserted + 2
            /\ pc' = IF script \in PeeweeScripts THEN "print" ELSE "done"
            /\ trace' = Append(trace, "insert")
            /\ UNCHANGED fault
    /\ UNCHANGED <<script, out, dbUp, tables, runs, ended, models, connected>>
    /\ UNCHANGED <<procEnv, environ, notORM>>

\* User.create(...) / Product.create(...), or session.add(...); session.commit():
\* one INSERT, refused by the database when it breaks a unique constraint.
Insert ==
    /\ script \in InsertScripts /\ pc = "insert"
    /\ IF Conflicts(script, SampleRow(script), rows)
       THEN /\ pc' = "fault"
            /\ fault' = "IntegrityError"
            /\ trace' = trace \o <<"insert", "fault">>
            /\ UNCHANGED <<rows, inserted>>
       ELSE /\ rows' = Append(rows, SampleRow(script))
            /\ inserted' = inserted + 1
            /\ pc' = IF script \in PeeweeScripts THEN "print" ELSE "done"
            /\ trace' = Append(trace, "insert")
            /\ UNCHANGED fault
    /\ UNCHANGED <<script, out, dbUp, tables, runs, ended, models, connected>>
    /\ UNCHANGED <<procEnv, environ, notORM>>

\* print("... inserted successfully.")
PrintSuccess ==
    /\ script \in PeeweeScripts /\ pc = "print"
    /\ out' = Append(out, SuccessLine(script))
    /\ pc' = "done"
    /\ trace' = Append(trace, "print")
    /\ UNCHANGED <<script, fault, ormVars>>
    /\ UNCHANGED <<procEnv, environ, notORM>>

\* settings.py: DATABASES = {... 'NAME': env('DATABASE_URL')}; env() raises when
\* the variable is not set.  No model is declared and nothing is connected.
DjangoSettings ==
    /\ script = "sqlite_django" /\ pc = "handle"
    /\ IF environ = Null
       THEN /\ pc' = "fault"
            /\ fault' = "ImproperlyConfigured"
            /\ trace' = trace \o <<"settings", "fault">>
       ELSE /\ pc' = "done"
            /\ trace' = Append(trace, "settings")
            /\ UNCHANGED fault
    /\ UNCHANGED <<script, out, ormVars>>
    /\ UNCHANGED <<procEnv, environ, notORM>>

\* The script is started again against the same database.
Rerun ==
    /\ script \in ORMScripts /\ pc \in {"done", "fault"}
    /\ runs < MaxRuns
    /\ runs' = runs + 1
    /\ dbUp' \in BOOLEAN
    /\ ResetRun
    /\ ended' = Append(ended, IF pc = "done" THEN "done" ELSE fault)
    /\ UNCHANGED <<script, tables, rows>>
    /\ UNCHANGED <<procEnv, environ, notORM>>

NextORM ==
    \/ MakeHandle
    \/ DeclareModel
    \/ Connect
    \/ CreateTables
    \/ Insert
    \/ PrintSuccess
    \/ DjangoSettings
    \/ Rerun
(***************************************************************************)
(* The web-framework templates                                             *)
(***************************************************************************)
WebScripts == {"bottle", "quart", "falcon", "responder", "dash", "sanic", "pyramid"}

R(path, methods) == [path |-> path, methods |-> methods]
AnyMethod == {"GET", "POST"}

\* The statements of each template, top to bottom.  "main" is the
\* if __name__ == '__main__' test; what follows it is its body.
Statements(s) ==
    CASE s = "bottle" ->
           << [op |-> "app"],
              [op |-> "route", route |-> R("/", {"GET"})],
              [op |-> "main"],
              [op |-> "serve"] >>
      [] s = "quart" ->
           << [op |-> "app"],
              [op |-> "route", route |-> R("/", {"GET"})],
              [op |-> "main"],
              [op |-> "serve"] >>
      [] s = "falcon" ->
           << [op |-> "app"],
              [op |-> "route", route |-> R("/", {"GET"})],
              [op |-> "main"],
              [op |-> "print"],
              [op |-> "serve"] >>
      [] s = "responder" ->
           << [op |-> "app"],
              [op |-> "route", route |-> R("/", AnyMethod)],
              [op |-> "route", route |-> R("/api/info", AnyMethod)],
              [op |-> "route", route |-> R("/api/echo", AnyMethod)],
              [op |-> "main"],
              [op |-> "serve"] >>
      [] s = "dash" ->
           << [op |-> "app"],
              [op |-> "layout"],
              [op |-> "main"],
              [op |-> "serve"] >>
      [] s = "sanic" ->
           << [op |-> "app"],
              [op |-> "route", route |-> R("/", {"GET"})],
              [op |-> "route", route |-> R("/api/data", {"GET"})],
              [op |-> "route", route |-> R("/api/echo", {"POST"})],
              [op |-> "main"],
              [op |-> "serve"] >>
      [] s = "pyramid" ->
           << [op |-> "main"],
              [op |-> "route", route |-> R("/", AnyMethod)],
              [op |-> "app"],
              [op |-> "print"],
              [op |-> "serve"] >>

\* A faulty variant of Program: quart starts its server before the route is registered.
ProgramServeEarly(s) ==
    IF s = "quart"
    THEN << [op |-> "app"],
            [op |-> "main"],
            [op |-> "serve"],
            [op |-> "route", route |-> R("/", {"GET"})] >>
    ELSE Statements(s)

\* The template the interpreter executes.
Program(s) == Statements(s)

\* The line falcon and pyramid print before serve_forever().
ServingLine(s) ==
    IF s = "falcon" THEN "Serving on http://127.0.0.1:8000" ELSE "Serving on http://localhost:6543"

Paths == {"/", "/api/info", "/api/data", "/api/echo", "/missing"}
MaxRequests == 1

\* The status a request gets from the route table.
Status(table, path, method) ==
    IF \E i \in 1..Len(table) : table[i].path = path /\ method \in table[i].methods THEN 200
    ELSE IF \E i \in 1..Len(table) : table[i].path = path THEN 405
    ELSE 404

\* While pc = "stmt", ip is the index of the next statement of Program(script).
Stmt == Program(script)[ip]
AtStmt(op) ==
    /\ script \in WebScripts
    /\ pc = "stmt"
    /\ Stmt.op = op
Advance ==
    /\ ip' = ip + 1
    /\ pc' = IF ip = Len(Program(script)) THEN "done" ELSE "stmt"

\* app = Quart(__name__) / falcon.App() / responder.API() / Dash(__name__) /
\* Sanic("MySanicApp") / config.make_wsgi_app(); for bottle, the default
\* application that importing route and run brings with it.
NewApp ==
    /\ AtStmt("app")
    /\ apps' = apps + 1
    /\ trace' = Append(trace, "app")
    /\ Advance
    /\ UNCHANGED <<script, out, fault, isMain, routes, serving, served>>
    /\ UNCHANGED notWeb

\* @route / @app.route / @app.post / app.add_route / config.add_route + add_view
AddRoute ==
    /\ AtStmt("route")
    /\ routes' = Append(routes, Stmt.route)
    /\ trace' = Append(trace, "route")
    /\ Advance
    /\ UNCHANGED <<script, out, fault, isMain, apps, serving, served>>
    /\ UNCHANGED notWeb

\* app.layout = html.Div([...]): dash serves the layout at "/", no route is registered.
SetLayout ==
    /\ AtStmt("layout")
    /\ trace' = Append(trace, "layout")
    /\ Advance
    /\ UNCHANGED <<script, out, fault, isMain, apps, routes, serving, served>>
    /\ UNCHANGED notWeb

\* if __name__ == '__main__': an imported module skips the body and ends.
MainGuard ==
    /\ AtStmt("main")
    /\ ip' = ip + 1
    /\ pc' = IF isMain THEN "stmt" ELSE "done"
    /\ trace' = Append(trace, "main")
    /\ UNCHANGED <<script, out, fault, isMain, apps, routes, serving, served>>
    /\ UNCHANGED notWeb

\* print("Serving on ...")
PrintServing ==
    /\ AtStmt("print")
    /\ out' = Append(out, ServingLine(script))
    /\ trace' = Append(trace, "print")
    /\ Advance
    /\ UNCHANGED <<script, fault, isMain, apps, routes, serving, served>>
    /\ UNCHANGED notWeb

\* run(...) / app.run(...) / api.run(...) / app.run_server(...) / serve_forever():
\* the call does not return while the server runs.
Serve ==
    /\ AtStmt("serve")
    /\ serving' = TRUE
    /\ trace' = Append(trace, "serve")
    /\ pc' = "serving"
    /\ UNCHANGED <<script, out, fault, isMain, apps, routes, served, ip>>
    /\ UNCHANGED notWeb

\* The running server answers a request from its route table.
HandleRequest ==
    /\ script \in WebScripts /\ pc = "serving"
    /\ Len(served) < MaxRequests
    /\ \E path \in Paths, method \in AnyMethod :
         served' = Append(served, [path |-> path, method |-> method,
                                   status |-> IF script = "dash" /\ path = "/" /\ method = "GET"
                                              THEN 200
                                              ELSE Status(routes, path, method)])
    /\ UNCHANGED <<script, pc, trace, out, fault, isMain, apps, routes, serving, ip>>
    /\ UNCHANGED notWeb

NextWeb ==
    \/ NewApp
    \/ AddRoute
    \/ SetLayout
    \/ MainGuard
    \/ PrintServing
    \/ Serve
    \/ HandleRequest
(***************************************************************************)
(* The pygame template                                                     *)
(***************************************************************************)
WIDTH == 800
HEIGHT == 600
player_speed == 5

K_ESCAPE == "ESC"
K_LEFT == "LEFT"
K_RIGHT == "RIGHT"
K_UP == "UP"
K_DOWN == "DOWN"
K_a == "a"
K_d == "d"
K_w == "w"
K_s == "s"
AllKeys == {K_ESCAPE, K_LEFT, K_RIGHT, K_UP, K_DOWN, K_a, K_d, K_w, K_s}

MaxFrames == 2
MaxHeld == 2
\* What pygame.key.get_pressed() can report: the keys held down, at most MaxHeld at once.
KeySets == {ks \in SUBSET AllKeys : Cardinality(ks) <= MaxHeld}
\* What clock.tick(FPS) can return, in milliseconds.
DtValues == {16, 17}

Pos(x, y) == [x |-> x, y |-> y]

\* A faulty variant of Move: the position is kept inside the window.
MoveClamped(pos, ks) ==
    LET x1 == IF K_LEFT \in ks \/ K_a \in ks THEN pos.x - player_speed ELSE pos.x
        x2 == IF K_RIGHT \in ks \/ K_d \in ks THEN x1 + player_speed ELSE x1
        y1 == IF K_UP \in ks \/ K_w \in ks THEN pos.y - player_speed ELSE pos.y
        y2 == IF K_DOWN \in ks \/ K_s \in ks THEN y1 + player_speed ELSE y1
        clamp(v, hi) == IF v < 0 THEN 0 ELSE IF v > hi THEN hi ELSE v
    IN  Pos(clamp(x2, WIDTH), clamp(y2, HEIGHT))

\* The four movement tests, in the order the loop body runs them.
Move(pos, ks) ==
    LET x1 == IF K_LEFT \in ks \/ K_a \in ks THEN pos.x - player_speed ELSE pos.x
        x2 == IF K_RIGHT \in ks \/ K_d \in ks THEN x1 + player_speed ELSE x1
        y1 == IF K_UP \in ks \/ K_w \in ks THEN pos.y - player_speed ELSE pos.y
        y2 == IF K_DOWN \in ks \/ K_s \in ks THEN y1 + player_speed ELSE y1
    IN  Pos(x2, y2)


\* while running: a new iteration begins, or the loop is left.
LoopTest ==
    /\ script = "pygame" /\ pc = "while"
    /\ IF running
       THEN /\ frames < MaxFrames
            /\ frames' = frames + 1
            /\ prev_pos' = player_pos
            /\ pc' = "tick"
       ELSE /\ pc' = "quit"
            /\ UNCHANGED <<frames, prev_pos>>
    /\ UNCHANGED <<script, trace, out, fault, running, player_pos, keys, quitEvent, flips, dt>>
    /\ UNCHANGED notGame

\* dt = clock.tick(FPS) / 1000.0
Tick ==
    /\ script = "pygame" /\ pc = "tick"
    /\ dt' \in DtValues
    /\ pc' = "events"
    /\ UNCHANGED <<script, trace, out, fault, running, player_pos, keys, quitEvent,
                   frames, flips, prev_pos>>
    /\ UNCHANGED notGame

\* for event in pygame.event.get(): if event.type == pygame.QUIT: running = False
Events ==
    /\ script = "pygame" /\ pc = "events"
    /\ quitEvent' \in BOOLEAN
    /\ running' = IF quitEvent' THEN FALSE ELSE running
    /\ pc' = "input"
    /\ UNCHANGED <<script, trace, out, fault, player_pos, keys, frames, flips, dt, prev_pos>>
    /\ UNCHANGED notGame

\* A faulty variant of Input: the ESC test is missing.
InputWithoutEscape ==
    /\ script = "pygame" /\ pc = "input"
    /\ keys' \in KeySets
    /\ player_pos' = Move(player_pos, keys')
    /\ pc' = "draw"
    /\ UNCHANGED <<script, trace, out, fault, running, quitEvent, frames, flips, dt, prev_pos>>
    /\ UNCHANGED notGame

\* keys = pygame.key.get_pressed(); the ESC test; the four movement tests.
Input ==
    /\ script = "pygame" /\ pc = "input"
    /\ keys' \in KeySets
    /\ running' = IF K_ESCAPE \in keys' THEN FALSE ELSE running
    /\ player_pos' = Move(player_pos, keys')
    /\ pc' = "draw"
    /\ UNCHANGED <<script, trace, out, fault, quitEvent, frames, flips, dt, prev_pos>>
    /\ UNCHANGED notGame

\* screen.fill, pygame.draw.circle at player_pos, the help text.
Draw ==
    /\ script = "pygame" /\ pc = "draw"
    /\ pc' = "flip"
    /\ UNCHANGED <<script, trace, out, fault, gameVars>>
    /\ UNCHANGED notGame

\* pygame.display.flip()
Flip ==
    /\ script = "pygame" /\ pc = "flip"
    /\ flips' = flips + 1
    /\ pc' = "while"
    /\ UNCHANGED <<script, trace, out, fault, running, player_pos, keys, quitEvent,
                   frames, dt, prev_pos>>
    /\ UNCHANGED notGame

\* pygame.quit()
Quit ==
    /\ script = "pygame" /\ pc = "quit"
    /\ trace' = Append(trace, "pygame.quit")
    /\ pc' = "exit"
    /\ UNCHANGED <<script, out, fault, gameVars>>
    /\ UNCHANGED notGame

\* sys.exit()
Exit ==
    /\ script = "pygame" /\ pc = "exit"
    /\ trace' = Append(trace, "sys.exit")
    /\ pc' = "done"
    /\ UNCHANGED <<script, out, fault, gameVars>>
    /\ UNCHANGED notGame

NextGame ==
    \/ LoopTest
    \/ Tick
    \/ Events
    \/ Input
    \/ Draw
    \/ Flip
    \/ Quit
    \/ Exit

(***************************************************************************)
(* Initial states.  The variables of the families a process does not       *)
(* belong to hold idle values and never change.                            *)
(***************************************************************************)
IdleAI ==
    /\ procEnv = Null /\ dotenv = Null /\ environ = Null /\ argv = <<>>
    /\ endpoint = Null /\ body = Null /\ API_KEY = Null /\ prompt = <<>>
    /\ request = NoRequest /\ wire = <<>> /\ res = Null

IdleORM ==
    /\ dbUp = FALSE /\ tables = {} /\ rows = <<>> /\ runs = 0 /\ ended = <<>>
    /\ models = <<>> /\ connected = FALSE /\ inserted = 0

IdleWeb ==
    /\ isMain = FALSE /\ apps = 0 /\ routes = <<>> /\ serving = FALSE /\ served = <<>>
    /\ ip = 0

IdleGame ==
    /\ running = FALSE /\ player_pos = Pos(0, 0) /\ keys = {} /\ quitEvent = FALSE
    /\ frames = 0 /\ flips = 0 /\ dt = 0 /\ prev_pos = Pos(0, 0)

\* An AI client script about to run, in any environment.
InitAI ==
    /\ script \in AIScripts
    /\ pc = "load_dotenv"
    /\ trace = <<>> /\ out = <<>> /\ fault = Null
    /\ procEnv \in KeyValues
    /\ dotenv \in {Null, "good"}
    /\ environ = procEnv
    /\ argv \in Argvs
    /\ endpoint \in {"up", "unreachable"}
    /\ body \in Bodies
    /\ API_KEY = Null /\ prompt = <<>> /\ request = NoRequest /\ wire = <<>> /\ res = Null
    /\ IdleORM /\ IdleWeb /\ IdleGame

\* The first run of an ORM script against an empty database.
InitORM ==
    /\ script \in ORMScripts
    /\ pc = "handle"
    /\ trace = <<>> /\ out = <<>> /\ fault = Null
    /\ procEnv \in {Null, "db.sqlite3"} /\ dotenv = Null /\ environ = procEnv
    /\ argv = <<>> /\ endpoint = Null /\ body = Null /\ API_KEY = Null /\ prompt = <<>>
    /\ request = NoRequest /\ wire = <<>> /\ res = Null
    /\ dbUp \in BOOLEAN
    /\ tables = {} /\ rows = <<>> /\ runs = 1 /\ ended = <<>>
    /\ models = <<>> /\ connected = FALSE /\ inserted = 0
    /\ IdleWeb /\ IdleGame

\* A web template about to run its first statement.
InitWeb ==
    /\ script \in WebScripts
    /\ pc = "stmt" /\ ip = 1
    /\ trace = <<>> /\ out = <<>> /\ fault = Null
    /\ IdleAI /\ IdleORM
    /\ isMain \in BOOLEAN
    /\ apps = 0 /\ routes = <<>> /\ serving = FALSE /\ served = <<>>
    /\ IdleGame

\* The state at the while statement with the player at pos, no iteration counted yet.
InitGameAt(pos) ==
    /\ script = "pygame"
    /\ pc = "while"
    /\ trace = <<>> /\ out = <<>> /\ fault = Null
    /\ IdleAI /\ IdleORM /\ IdleWeb
    /\ running = TRUE
    /\ player_pos = pos /\ prev_pos = pos
    /\ keys = {} /\ quitEvent = FALSE
    /\ frames = 0 /\ flips = 0 /\ dt = 0

\* The state when the while statement is first reached.
InitGame == InitGameAt(Pos(WIDTH \div 2, HEIGHT \div 2))

(***************************************************************************)
(* Specifications, one per family of scripts                               *)
(***************************************************************************)
SpecAI == InitAI /\ [][NextAI]_vars
SpecORM == InitORM /\ [][NextORM]_vars
SpecWeb == InitWeb /\ [][NextWeb]_vars
SpecGame == InitGame /\ [][NextGame]_vars
\* The interpreter runs the next statement whenever there is one.
FairSpecGame == SpecGame /\ WF_vars(NextGame)
\* The loop observed from a position it reaches: (0, 0) after the left and up keys
\* were held for 80 iterations, (800, 600) after right and down were.
StartPositions == {Pos(WIDTH \div 2, HEIGHT \div 2), Pos(0, 0), Pos(WIDTH, HEIGHT)}
InitGameAny == \E p \in StartPositions : InitGameAt(p)
SpecGameAt == InitGameAny /\ [][NextGame]_vars
\* The AI client scripts and the ORM scripts together.
InitScripts == InitAI \/ InitORM
NextScripts == NextAI \/ NextORM
SpecScripts == InitScripts /\ [][NextScripts]_vars

(***************************************************************************)
(* Properties                                                              *)
(***************************************************************************)
Terminal == pc \in {"done", "fault"}
Count(seq, e) == Cardinality({i \in 1..Len(seq) : seq[i] = e})
\* The steps of seq that are among evs, in order.
Only(seq, evs) == SelectSeq(seq, LAMBDA e : e \in evs)
\* Every b of seq has an a somewhere before it.
Precedes(seq, a, b) ==
    \A j \in 1..Len(seq) : seq[j] = b => \E i \in 1..(j - 1) : seq[i] = a

\* The key the script ends up with: the environment's, else the .env file's.
EffectiveKey == IF procEnv # Null THEN procEnv ELSE dotenv
\* A valid credential, a reachable endpoint, and a provider that answers with a completion.
Healthy == EffectiveKey = "good" /\ endpoint = "up" /\ body = "text"

\* C1: in every run of an AI client script at most one request is ever sent, it
\* goes to the script's fixed endpoint and only after the key was read, and a
\* line is printed only after the response was received; with a valid
\* credential and a reachable, answering endpoint the run ends having read the
\* key, sent exactly one request, received the response and then printed
\* exactly one line, the provider label followed by the response text.
C1_OneRequestThenOneLine ==
    script \in AIScripts =>
        /\ Len(wire) <= 1
        /\ Len(out) <= 1
        /\ \A i \in 1..Len(wire) : wire[i].url = Url(script)
        /\ Precedes(trace, "getenv", "request")
        /\ Precedes(trace, "response", "print")
        /\ out # <<>> => res # Null /\ Len(wire) = 1
        /\ (Healthy /\ Terminal) =>
              /\ pc = "done"
              /\ Only(trace, {"getenv", "request", "response", "print"})
                    = <<"getenv", "request", "response", "print">>
              /\ Len(wire) = 1
              /\ out = << <<Label(script), body>> >>

C1_Witness ==
    /\ script = "openai" /\ pc = "done" /\ Healthy
    /\ Len(wire) = 1 /\ Len(out) = 1

\* The failures the scripts can meet.
KeyMissing == script \in AIScripts /\ EffectiveKey = Null
EndpointDown == script \in AIScripts /\ endpoint = "unreachable"
Malformed == script \in AIScripts /\ body # "text"
DatabaseDown == script \in InsertScripts /\ ~dbUp

\* C2: in every AI client script and every ORM script a missing API key, an
\* unreachable endpoint or database, and a malformed response each end the run
\* with an uncaught fault; once a fault has been raised the script takes no
\* further step, has printed nothing (no response line, no success message, no
\* error report), and has attempted the failed request, connection or insert
\* only once.
C2_FaultsEndTheRun ==
    /\ (Terminal /\ (KeyMissing \/ EndpointDown \/ Malformed \/ DatabaseDown)) => pc = "fault"
    /\ pc = "fault" <=> fault # Null
    /\ fault # Null =>
          /\ trace[Len(trace)] = "fault"
          /\ Count(trace, "fault") = 1
          /\ out = <<>>
          /\ Len(wire) <= 1
          /\ Count(trace, "request") <= 1
          /\ Count(trace, "connect") <= 1
          /\ Count(trace, "insert") <= 1
          /\ inserted = 0

C2_Witness ==
    /\ script \in RequestsScripts /\ KeyMissing /\ endpoint = "up"
    /\ res = "unauthorized"
    /\ pc = "fault" /\ fault = "KeyError" /\ Len(wire) = 1

RECURSIVE Offset(_, _)
\* Where the i-th argument starts in the joined text, counted from 0.
Offset(args, i) == IF i = 1 THEN 0 ELSE Offset(args, i - 1) + Len(args[i - 1]) + 1

\* C6: the prompt an AI client script sends is never empty; it is the fixed
\* default when there are no arguments or the only argument is empty, and
\* otherwise the arguments in their order with exactly one space between
\* neighbours; the request is made of the fixed endpoint and model, the key and
\* that prompt, so sys.argv[0] has no part in it.
C6_PromptIsJoinedArgs ==
    (script \in AIScripts /\ Count(trace, "prompt") = 1) =>
        LET args == Tail(argv)
            n == Len(args)
        IN  /\ prompt # <<>>
            /\ (n = 0 \/ (n = 1 /\ args[1] = <<>>)) => prompt = DefaultPrompt
            /\ ~(n = 0 \/ (n = 1 /\ args[1] = <<>>)) =>
                  /\ Len(prompt) = Offset(args, n) + Len(args[n])
                  /\ \A i \in 1..n :
                        SubSeq(prompt, Offset(args, i) + 1, Offset(args, i) + Len(args[i])) = args[i]
                  /\ \A i \in 2..n : prompt[Offset(args, i)] = " "
            /\ request # NoRequest =>
                  /\ request.prompt = prompt
                  /\ request.url = Url(script)
                  /\ request.model = ModelName(script)
            /\ \A i \in 1..Len(wire) : wire[i] = request

C6_Witness ==
    /\ script = "open-router"
    /\ Tail(argv) = << <<"b">>, <<"a">> >>
    /\ Len(wire) = 1 /\ wire[1].prompt = <<"b", " ", "a">>

\* The steps an AI client script takes before its request goes out.
StepsBeforeRequest == <<"load_dotenv", "getenv", "prompt", "build">>

\* C9 as stated: every AI client script, openai included, sends its one request
\* even when the key is unset, after the same steps as when it is set.
C9_Original ==
    (script \in AIScripts /\ Terminal) =>
        /\ Len(wire) = 1
        /\ SubSeq(trace, 1, 4) = StepsBeforeRequest

\* C9 (amended): no AI client script tests its key.  claude, gemini, grok and
\* open-router send their one request whether or not the key is set, after the
\* same steps, carrying the null credential (None in the x-api-key header, the
\* text "None" after Bearer or in the URL) when it is not; openai hands the
\* key to the client constructor, sends its one request when a key is set, and
\* ends in the constructor's fault, with no request sent, when none is.
C9_RequestsScriptsSendWithoutKey ==
    (script \in AIScripts /\ Terminal) =>
        /\ script \in RequestsScripts =>
              /\ Len(wire) = 1
              /\ SubSeq(trace, 1, 4) = StepsBeforeRequest
              /\ wire[1].cred.value =
                    (IF script = "claude" THEN EffectiveKey
                     ELSE IF EffectiveKey = Null THEN "None" ELSE EffectiveKey)
        /\ (script = "openai" /\ EffectiveKey # Null) =>
              /\ Len(wire) = 1
              /\ SubSeq(trace, 1, 4) = StepsBeforeRequest
              /\ wire[1].cred.value = EffectiveKey
        /\ (script = "openai" /\ EffectiveKey = Null) =>
              /\ wire = <<>>
              /\ fault = "OpenAIError"

C9_Witness ==
    /\ script = "grok" /\ EffectiveKey = Null /\ Terminal
    /\ Len(wire) = 1 /\ wire[1].cred = [via |-> "Bearer", value |-> "None"]
\* C3 as stated: every ORM script, the SQLite ones included, opens a connection,
\* then declares one or two models, then creates the tables, then inserts
\* exactly one row.
C3_Original ==
    script \in ORMScripts =>
        /\ Precedes(trace, "create_tables", "insert")
        /\ inserted <= 1
        /\ pc = "done" =>
              /\ Only(trace, {"connect", "class", "create_tables", "insert"})
                    \in { <<"connect", "class", "create_tables", "insert">>,
                          <<"connect", "class", "class", "create_tables", "insert">> }
              /\ inserted = 1

\* C3 (amended): the MySQL and PostgreSQL scripts make a database handle, then
\* declare one (SQLAlchemy) or two (Peewee) model classes, then open the
\* connection, then create the tables, then insert; a run that completes has
\* inserted exactly one row, the insert never comes before the tables were
\* created and no run inserts more than one row.  The two SQLite files never
\* connect, create a table or insert; they declare at most one model.
C3_HandleModelsConnectCreateInsert ==
    script \in ORMScripts =>
        /\ Precedes(trace, "handle", "class")
        /\ Precedes(trace, "class", "connect")
        /\ Precedes(trace, "connect", "create_tables")
        /\ Precedes(trace, "create_tables", "insert")
        /\ inserted <= 1
        /\ Count(trace, "insert") <= 1
        /\ (script \in InsertScripts /\ pc = "done") =>
              /\ Only(trace, {"handle", "class", "connect", "create_tables", "insert"})
                    = (IF script \in PeeweeScripts
                       THEN <<"handle", "class", "class", "connect", "create_tables", "insert">>
                       ELSE <<"handle", "class", "connect", "create_tables", "insert">>)
              /\ Len(models) \in {1, 2}
              /\ inserted = 1
        /\ script \in SqliteScripts =>
              /\ ~connected /\ tables = {} /\ rows = <<>> /\ inserted = 0
              /\ Len(models) <= 1
              /\ Only(trace, {"connect", "create_tables", "insert"}) = <<>>

C3_Witness ==
    /\ script = "mysql_peewee" /\ pc = "done" /\ inserted = 1
    /\ Len(models) = 2 /\ connected /\ tables = {"user"}

\* The routes each template registers.
ExpectedRoutes(s) ==
    CASE s = "dash" -> 0
      [] s \in {"responder", "sanic"} -> 3
      [] OTHER -> 1

\* C4 as stated: a template run as the main program has instantiated one
\* application object and registered one or two routes when its server starts.
C4_Original ==
    (script \in WebScripts /\ isMain /\ serving) =>
        /\ apps = 1
        /\ Len(routes) \in {1, 2}
        /\ trace[Len(trace)] = "serve"

\* C4 (amended): a template run as the main program has one application object
\* (bottle's is the framework's default application), registers between zero
\* and three routes (dash none, bottle, falcon, quart and pyramid one, responder
\* and sanic three), and starts its server once, only after all of them are
\* registered: no application or route is added once the server runs.  An
\* imported template never starts a server.
C4_RoutesThenServer ==
    script \in WebScripts =>
        /\ apps <= 1
        /\ Len(routes) <= 3
        /\ serving => isMain
        /\ pc = "done" => ~isMain
        /\ serving =>
              /\ apps = 1
              /\ Len(routes) = ExpectedRoutes(script)
              /\ trace[Len(trace)] = "serve"
              /\ Count(trace, "serve") = 1

C4_Witness ==
    /\ script = "sanic" /\ isMain /\ serving
    /\ apps = 1 /\ Len(routes) = 3 /\ Len(served) = 1

\* Whether the current iteration was asked to stop.
Asked == quitEvent \/ K_ESCAPE \in keys

C5_Safety ==
    script = "pygame" =>
        /\ (pc \in {"draw", "flip"} \/ (pc = "while" /\ frames > 0)) =>
              /\ running = ~Asked
              /\ player_pos = Move(prev_pos, keys)
        /\ pc \in {"tick", "events", "input", "draw", "flip"} => flips = frames - 1
        /\ pc \in {"quit", "exit", "done"} =>
              /\ ~running /\ Asked
              /\ frames >= 1 /\ flips = frames
              /\ player_pos = Move(prev_pos, keys)
        /\ trace = (CASE pc = "exit" -> <<"pygame.quit">>
                      [] pc = "done" -> <<"pygame.quit", "sys.exit">>
                      [] OTHER -> <<>>)

\* C5: an iteration that dequeues a QUIT event or finds ESC held clears
\* running, still moves, draws and flips, and is the last one: the loop is left
\* with as many flips as iterations, pygame.quit() and then sys.exit() are
\* called and nothing is drawn after; an iteration with neither leaves running
\* set; and once running is cleared the script goes on to terminate.
C5_LoopEndsWhenAsked == []C5_Safety /\ ((~running) ~> (pc = "done"))

C5_Witness ==
    /\ pc = "done" /\ K_ESCAPE \in keys /\ ~quitEvent
    /\ frames = 2 /\ flips = 2 /\ player_pos # prev_pos

B(b) == IF b THEN 1 ELSE 0

\* C7: each iteration moves the player by 5 * (right - left) in x and
\* 5 * (down - up) in y, where a direction counts once however many of its two
\* keys are held, whatever dt is and wherever the player is, the window's edge
\* included; x stays congruent to 400 and y to 300 modulo 5.
C7_FixedStep ==
    script = "pygame" =>
        LET left == K_LEFT \in keys \/ K_a \in keys
            right == K_RIGHT \in keys \/ K_d \in keys
            up == K_UP \in keys \/ K_w \in keys
            down == K_DOWN \in keys \/ K_s \in keys
        IN  /\ (player_pos.x - 400) % 5 = 0
            /\ (player_pos.y - 300) % 5 = 0
            /\ pc \in {"tick", "events", "input"} => player_pos = prev_pos
            /\ pc \in {"draw", "flip"} =>
                  /\ player_pos.x - prev_pos.x = 5 * (B(right) - B(left))
                  /\ player_pos.y - prev_pos.y = 5 * (B(down) - B(up))

C7_Witness ==
    /\ pc = "draw" /\ keys = {K_LEFT, K_a}
    /\ prev_pos.x = 0 /\ player_pos.x = -5 /\ player_pos.y = prev_pos.y

\* C8: run again and again against the same database, a script finds its table
\* and rows as the runs before left them; the MySQL scripts (unique email)
\* insert once and every later run that reaches the insert ends in a fault, so
\* the table never holds more than one row; the PostgreSQL scripts insert
\* ("Laptop", 50000) on every run that reaches the database, n rows after n
\* such runs.
C8_RepeatedRuns ==
    script \in InsertScripts =>
        LET mysql == script \in {"mysql_peewee", "mysql_sqlalchemy"}
            reached == Count(ended, "done") + Count(ended, "IntegrityError")
        IN  /\ tables \subseteq {TableName(script)}
            /\ Len(rows) = Count(ended, "done") + inserted
            /\ Len(rows) >= 1 => tables # {}
            /\ mysql =>
                  /\ Len(rows) <= 1
                  /\ \A i \in 1..Len(rows) :
                        rows[i] = [name |-> "Sharique", email |-> "sharique@example.com"]
                  /\ \A i, j \in 1..Len(ended) :
                        (i < j /\ ended[i] = "done") => ended[j] \in {"IntegrityError", "OperationalError"}
                  /\ Count(ended, "OperationalError") = 0 =>
                        \A j \in 2..Len(ended) : ended[j] = "IntegrityError"
                  /\ (Count(ended, "done") = 1 /\ Count(trace, "insert") = 1) =>
                        fault = "IntegrityError"
            /\ ~mysql =>
                  /\ \A i \in 1..Len(rows) : rows[i] = [name |-> "Laptop", price |-> 50000]
                  /\ Count(ended, "IntegrityError") = 0
                  /\ Len(rows) = reached + inserted
                  /\ Count(ended, "OperationalError") = 0 => Len(rows) = Len(ended) + inserted

C8_Witness ==
    /\ script = "mysql_sqlalchemy" /\ ended = <<"done", "IntegrityError">>
    /\ pc = "fault" /\ fault = "IntegrityError" /\ Len(rows) = 1
====
